---- MODULE Spec2Model ----
(***************************************************************************)
(* Model of main/lsp/LSPConfiguration.cc: the session configuration of the *)
(* language server (rootPath, the write-once client configuration, the     *)
(* atomic "initialized" flag), the capability negotiator                   *)
(* (LSPClientConfiguration's constructor) and the URI / location           *)
(* translators built on them.                                              *)
(*                                                                         *)
(* Strings are sequences of one-character strings, so that prefix tests,   *)
(* substr, concatenation and StrReplaceAll are computed as the code        *)
(* computes them.  An optional / nullable value is a sequence of length 0  *)
(* or 1.  The result of a call is an outcome record: a returned value, a   *)
(* fault (an exception that aborts the call) or undefined behaviour.       *)
(***************************************************************************)
EXTENDS Integers, Sequences, FiniteSets, TLC

VARIABLES
    debugMode,     \* whether the build checks ENFORCE (debug) or compiles it out
    rootPath,      \* LSPConfiguration::rootPath
    clientConfig,  \* LSPConfiguration::clientConfig: <<>> (null) or <<cfg>>
    initialized,   \* LSPConfiguration::initialized (atomic<bool>)
    last,          \* the call whose result is with the caller: [op, arg, out], or NoCall
    pc,            \* per reader thread: "idle" or "loaded" (inside isInitialized)
    reg,           \* per reader thread: the value its load obtained
    invokedAfterTrue, \* per reader thread: its current call began after some call returned true
    someReturnedTrue, \* some isInitialized call has returned true
    marked         \* markInitialized has executed at least once

vars == <<debugMode, rootPath, clientConfig, initialized, last,
          pc, reg, invokedAfterTrue, someReturnedTrue, marked>>

----------------------------------------------------------------------------
(* Bounds of the model *)

\* longest relative name / URI remainder, in parts drawn from Parts
MaxParts == 2
\* most trailing '/' characters on a handshake rootUri
MaxSlashes == 2
\* largest 1-based line number of a Loc
MaxLine == 11
\* largest 0-based line / character of a protocol Position
MaxPos == 1
\* number of concurrent reader threads of the initialized flag
NumReaders == 2

----------------------------------------------------------------------------
(* Strings *)

sorbetScheme == <<"s", "o", "r", "b", "e", "t", ":">>
httpsScheme == <<"h", "t", "t", "p", "s">>

\* absl::StartsWith
StartsWith(s, prefix) ==
    /\ Len(prefix) <= Len(s)
    /\ SubSeq(s, 1, Len(prefix)) = prefix

\* absl::EndsWith
EndsWith(s, suffix) ==
    /\ Len(suffix) <= Len(s)
    /\ SubSeq(s, Len(s) - Len(suffix) + 1, Len(s)) = suffix

\* s.substr(n) for n <= s.length()
Substr(s, n) == SubSeq(s, n + 1, Len(s))

\* absl::StrReplaceAll(s, {{from, to}}): leftmost, non-overlapping, one pass
RECURSIVE StrReplaceAll(_, _, _)
StrReplaceAll(s, from, to) ==
    IF s = <<>> THEN <<>>
    ELSE IF StartsWith(s, from) THEN to \o StrReplaceAll(Substr(s, Len(from)), from, to)
    ELSE <<Head(s)>> \o StrReplaceAll(Tail(s), from, to)

\* one decimal digit, as fmt prints it
DigitChar(d) == <<"0", "1", "2", "3", "4", "5", "6", "7", "8", "9">>[d + 1]

\* fmt::format("{}", n) for an unsigned n
RECURSIVE FormatDecimal(_)
FormatDecimal(n) ==
    IF n < 10 THEN <<DigitChar(n)>>
    ELSE FormatDecimal(n \div 10) \o <<DigitChar(n % 10)>>

RECURSIVE Flatten(_)
Flatten(ss) == IF ss = <<>> THEN <<>> ELSE Head(ss) \o Flatten(Tail(ss))

\* the pieces relative names and URI remainders are built from
Parts ==
    { <<"/">>, <<"x">>, <<":">>, sorbetScheme, httpsScheme,
      <<"%", "3", "A">>, <<"%", "2", "F">> }

\* every concatenation of at most k parts
TailsOf(k) == { Flatten(ps) : ps \in UNION { [1..n -> Parts] : n \in 0..k } }

Tails == TailsOf(MaxParts)

----------------------------------------------------------------------------
(* Outcomes of a call *)

NoClientConfig == "clientConfig is not initialized."
SetTwice == "Cannot call setClientConfig twice in one session!"
EnforceFailed == "ENFORCE(absl::StartsWith(filePath, rootPath))"
OutOfRange == "std::out_of_range"

Ret(v) == [kind |-> "ret", val |-> v, err |-> "", logged |-> FALSE]
\* a value returned after logger->error(...)
RetLogged(v) == [kind |-> "ret", val |-> v, err |-> "", logged |-> TRUE]
Fault(e) == [kind |-> "fault", val |-> <<>>, err |-> e, logged |-> FALSE]
\* the call ran into undefined behaviour: anything may happen
Undefined == [kind |-> "undefined", val |-> <<>>, err |-> "", logged |-> FALSE]

Call(op, arg, out) == [op |-> op, arg |-> arg, out |-> out]
\* no result is outstanding: the calling thread is free to make its next call
NoCall == Call("none", <<>>, Ret(<<>>))

----------------------------------------------------------------------------
(* Capability negotiator: LSPClientConfiguration's constructor *)

Markdown == "markdown"
Plaintext == "plaintext"

\* the field values the class definition gives before the constructor runs
DefaultClientConfiguration ==
    [ rootUri |-> <<>>,
      clientCompletionItemSnippetSupport |-> FALSE,
      clientCompletionItemMarkupKind |-> Plaintext,
      clientHoverMarkupKind |-> Plaintext,
      enableOperationNotifications |-> FALSE,
      enableTypecheckInfo |-> FALSE,
      enableSorbetURIs |-> FALSE ]

getPreferredMarkupKind(formats) ==
    IF \E i \in 1..Len(formats) : formats[i] = Markdown THEN Markdown ELSE Plaintext

\* optional.value_or(d)
ValueOr(opt, d) == IF opt = <<>> THEN d ELSE opt[1]

RECURSIVE StripSlashes(_)
StripSlashes(u) ==
    IF EndsWith(u, <<"/">>) THEN StripSlashes(SubSeq(u, 1, Len(u) - 1)) ELSE u

\* faulty variant of NegotiatedRootUri: normalises away every trailing '/'
NegotiatedRootUri_stripsAll(params) ==
    IF params.rootUri.isString
    THEN StripSlashes(params.rootUri.str)
    ELSE DefaultClientConfiguration.rootUri

\* the rootUri the constructor stores: a null rootUri leaves the default
NegotiatedRootUri(params) ==
    IF params.rootUri.isString
    THEN LET rootUriString == params.rootUri.str
         IN  IF EndsWith(rootUriString, <<"/">>)
             THEN SubSeq(rootUriString, 1, Len(rootUriString) - 1)
             ELSE rootUriString
    ELSE DefaultClientConfiguration.rootUri

\* the completionItem of the payload, when every level down to it is present
CompletionItemOf(params) ==
    LET td == params.capabilities.textDocument
    IN  IF td = <<>> THEN <<>>
        ELSE IF td[1].completion = <<>> THEN <<>>
        ELSE td[1].completion[1].completionItem

\* the hover capabilities of the payload, when present
HoverOf(params) ==
    LET td == params.capabilities.textDocument
    IN  IF td = <<>> THEN <<>> ELSE td[1].hover

LSPClientConfiguration(params) ==
    LET d == DefaultClientConfiguration
        item == CompletionItemOf(params)
        hover == HoverOf(params)
        init == params.initializationOptions
    IN  [ rootUri |-> NegotiatedRootUri(params),
          clientCompletionItemSnippetSupport |->
              IF item = <<>> THEN d.clientCompletionItemSnippetSupport
              ELSE ValueOr(item[1].snippetSupport, FALSE),
          clientCompletionItemMarkupKind |->
              IF item = <<>> \/ item[1].documentationFormat = <<>>
              THEN d.clientCompletionItemMarkupKind
              ELSE getPreferredMarkupKind(item[1].documentationFormat[1]),
          clientHoverMarkupKind |->
              IF hover = <<>> \/ hover[1].contentFormat = <<>>
              THEN d.clientHoverMarkupKind
              ELSE getPreferredMarkupKind(hover[1].contentFormat[1]),
          enableOperationNotifications |->
              IF init = <<>> THEN d.enableOperationNotifications
              ELSE ValueOr(init[1].supportsOperationNotifications, FALSE),
          enableTypecheckInfo |->
              IF init = <<>> THEN d.enableTypecheckInfo
              ELSE ValueOr(init[1].enableTypecheckInfo, FALSE),
          enableSorbetURIs |->
              IF init = <<>> THEN d.enableSorbetURIs
              ELSE ValueOr(init[1].supportsSorbetURIs, FALSE) ]

(* Handshake payloads *)

RECURSIVE Slashes(_)
Slashes(k) == IF k = 0 THEN <<>> ELSE <<"/">> \o Slashes(k - 1)

RootUriBases == { <<>>, <<"f", ":", "w">> }

\* params.rootUri is variant<string, null>
NullRootUri == [isString |-> FALSE, str |-> <<>>]
StringRootUri(s) == [isString |-> TRUE, str |-> s]

RawRootUris ==
    {NullRootUri} \cup { StringRootUri(b \o Slashes(k)) : b \in RootUriBases, k \in 0..MaxSlashes }

TextDocumentCapabilities ==
    { <<>>,
      << [completion |-> <<>>, hover |-> <<>>] >>,
      << [completion |-> << [completionItem |-> <<>>] >>,
          hover |-> << [contentFormat |-> <<>>] >>] >>,
      << [completion |-> << [completionItem |->
              << [snippetSupport |-> <<TRUE>>,
                  documentationFormat |-> << <<Plaintext, Markdown>> >>] >>] >>,
          hover |-> << [contentFormat |-> << <<Plaintext>> >>] >>] >>,
      << [completion |-> << [completionItem |->
              << [snippetSupport |-> <<>>,
                  documentationFormat |-> << <<Plaintext>> >>] >>] >>,
          hover |-> << [contentFormat |-> << <<Markdown, Plaintext>> >>] >>] >> }

InitializationOptions ==
    { <<>>,
      << [supportsOperationNotifications |-> <<>>, enableTypecheckInfo |-> <<>>,
          supportsSorbetURIs |-> <<TRUE>>] >>,
      << [supportsOperationNotifications |-> <<TRUE>>, enableTypecheckInfo |-> <<TRUE>>,
          supportsSorbetURIs |-> <<FALSE>>] >> }

InitializeParams ==
    { [rootUri |-> r, capabilities |-> [textDocument |-> td], initializationOptions |-> io] :
        r \in RawRootUris, td \in TextDocumentCapabilities, io \in InitializationOptions }

\* the payloads a session is negotiated from: every initialization option and
\* every rootUri with at most one trailing '/', the text-document capabilities
\* (which no translator reads) absent
SessionParams ==
    { p \in InitializeParams :
        /\ p.capabilities.textDocument = <<>>
        /\ ~EndsWith(p.rootUri.str, <<"/", "/">>) }

ClientConfigurations == { LSPClientConfiguration(p) : p \in SessionParams }

----------------------------------------------------------------------------
(* Session configuration: construction *)

\* opts.rawInputDirNames as the command line may give it
RawInputDirNames ==
    { <<>>, << <<>> >>, << <<"/", "r">> >>, << <<"r", "/">> >>,
      << <<"/", "r">>, <<"q">> >> }

getRootPath(rawInputDirNames) ==
    IF Len(rawInputDirNames) # 1
    THEN Fault("EarlyReturnWithCode(1)")
    ELSE Ret(rawInputDirNames[1])

Readers == 1..NumReaders

\* the state the constructor leaves; a failed getRootPath constructs no session
Init ==
    /\ debugMode \in BOOLEAN
    /\ \E dirs \in RawInputDirNames :
          /\ getRootPath(dirs).kind = "ret"
          /\ rootPath = getRootPath(dirs).val
    /\ clientConfig = <<>>
    /\ initialized = FALSE
    /\ last = NoCall
    /\ pc = [r \in Readers |-> "idle"]
    /\ reg = [r \in Readers |-> FALSE]
    /\ invokedAfterTrue = [r \in Readers |-> FALSE]
    /\ someReturnedTrue = FALSE
    /\ marked = FALSE

readerVars == <<pc, reg, invokedAfterTrue, someReturnedTrue>>

\* what a const method leaves alone: every field of the session
Const == UNCHANGED <<debugMode, rootPath, clientConfig, initialized, marked, readerVars>>

----------------------------------------------------------------------------
(* Session configuration: client configuration and the initialized flag *)

assertHasClientConfig ==
    IF clientConfig = <<>> THEN Fault(NoClientConfig) ELSE Ret(<<>>)

\* the calling thread makes one call at a time
Idle == last = NoCall

\* the caller takes the result of its call
Return ==
    /\ ~Idle
    /\ last' = NoCall
    /\ Const

\* faulty variant of setClientConfig: no check for an installed configuration
setClientConfig_overwrites(cfg) ==
    /\ Idle
    /\ clientConfig' = <<cfg>>
    /\ last' = Call("setClientConfig", cfg, Ret(<<>>))
    /\ UNCHANGED <<debugMode, rootPath, initialized, marked, readerVars>>

setClientConfig(cfg) ==
    /\ Idle
    /\ IF clientConfig # <<>>
       THEN /\ last' = Call("setClientConfig", cfg, Fault(SetTwice))
            /\ UNCHANGED clientConfig
       ELSE /\ clientConfig' = <<cfg>>
            /\ last' = Call("setClientConfig", cfg, Ret(<<>>))
    /\ UNCHANGED <<debugMode, rootPath, initialized, marked, readerVars>>

\* faulty variant of markInitialized: flips the flag instead of setting it
markInitialized_toggles ==
    /\ Idle
    /\ initialized' = ~initialized
    /\ marked' = TRUE
    /\ last' = Call("markInitialized", <<>>, Ret(<<>>))
    /\ UNCHANGED <<debugMode, rootPath, clientConfig, readerVars>>

markInitialized ==
    /\ Idle
    /\ initialized' = TRUE
    /\ marked' = TRUE
    /\ last' = Call("markInitialized", <<>>, Ret(<<>>))
    /\ UNCHANGED <<debugMode, rootPath, clientConfig, readerVars>>

\* a whole call made by the thread that also makes the other calls
isInitialized ==
    /\ Idle
    /\ last' = Call("isInitialized", <<>>, Ret(initialized))
    /\ someReturnedTrue' = (someReturnedTrue \/ initialized)
    /\ UNCHANGED <<debugMode, rootPath, clientConfig, initialized, marked,
                   pc, reg, invokedAfterTrue>>

\* a reader thread inside isInitialized: the atomic load ...
isInitialized_load(r) ==
    /\ pc[r] = "idle"
    /\ reg' = [reg EXCEPT ![r] = initialized]
    /\ invokedAfterTrue' = [invokedAfterTrue EXCEPT ![r] = someReturnedTrue]
    /\ pc' = [pc EXCEPT ![r] = "loaded"]
    /\ UNCHANGED <<debugMode, rootPath, clientConfig, initialized, marked,
                   last, someReturnedTrue>>

\* ... and the return of the loaded value to the reader
isInitialized_return(r) ==
    /\ pc[r] = "loaded"
    /\ someReturnedTrue' = (someReturnedTrue \/ reg[r])
    /\ reg' = [reg EXCEPT ![r] = FALSE]
    /\ invokedAfterTrue' = [invokedAfterTrue EXCEPT ![r] = FALSE]
    /\ pc' = [pc EXCEPT ![r] = "idle"]
    /\ UNCHANGED <<debugMode, rootPath, clientConfig, initialized, marked, last>>

getClientConfig ==
    IF assertHasClientConfig.kind = "fault"
    THEN assertHasClientConfig
    ELSE Ret(clientConfig[1])

\* faulty variant of isUriInWorkspace: dereferences clientConfig unchecked
isUriInWorkspace_unchecked(uri) ==
    IF clientConfig = <<>> THEN Undefined
    ELSE Ret(StartsWith(uri, clientConfig[1].rootUri))

isUriInWorkspace(uri) ==
    IF assertHasClientConfig.kind = "fault"
    THEN assertHasClientConfig
    ELSE Ret(StartsWith(uri, clientConfig[1].rootUri))

----------------------------------------------------------------------------
(* URI translator *)

\* localName2Remote(filePath); `ignored` is what FileOps::isFileIgnored(rootPath,
\* filePath, opts.lspDirsMissingFromClient, {}) answers for filePath
localName2Remote(filePath, ignored) ==
    IF debugMode /\ ~StartsWith(filePath, rootPath) THEN Fault(EnforceFailed)
    ELSE IF assertHasClientConfig.kind = "fault" THEN assertHasClientConfig
    ELSE IF Len(rootPath) > Len(filePath) THEN Fault(OutOfRange)  \* substr(pos > size)
    ELSE LET rest == Substr(filePath, Len(rootPath))
         IN  IF rest = <<>> THEN Fault(OutOfRange)                \* at(0) of an empty view
             ELSE LET relativeUri == IF rest[1] = "/" THEN Tail(rest) ELSE rest
                      cfg == clientConfig[1]
                  IN  IF Len(cfg.rootUri) = 0 THEN Ret(relativeUri)
                      ELSE IF cfg.enableSorbetURIs /\ ignored
                           THEN Ret(sorbetScheme \o relativeUri)
                      ELSE Ret(cfg.rootUri \o <<"/">> \o relativeUri)

\* lines 141-153: from the path left after the prefix to the local name
PathToLocal(path, isSorbetURI) ==
    LET isHttps ==
            /\ isSorbetURI
            /\ StartsWith(path, httpsScheme)
            /\ Len(path) > Len(httpsScheme)
            /\ (path[Len(httpsScheme) + 1] = ":" \/ path[Len(httpsScheme) + 1] = "%")
    IN  IF isHttps THEN Ret(StrReplaceAll(path, <<"%", "3", "A">>, <<":">>))
        ELSE IF Len(rootPath) > 0 THEN Ret(rootPath \o <<"/">> \o path)
        ELSE Ret(path)

\* remoteName2Local(uri): the set of outcomes the call can have.  `start` may
\* point at or past uri.end(): reading *start at the end is outside the view
\* (it yields a character that is not '/', or the behaviour is undefined), and
\* string(start, uri.end()) with start past the end is undefined.
remoteName2Local(uri) ==
    IF assertHasClientConfig.kind = "fault" THEN {assertHasClientConfig}
    ELSE LET cfg == clientConfig[1]
             isSorbetURI == StartsWith(uri, sorbetScheme)
         IN  IF ~StartsWith(uri, cfg.rootUri) /\ ~cfg.enableSorbetURIs /\ ~isSorbetURI
             THEN {RetLogged(uri)}
             ELSE LET root == IF isSorbetURI THEN sorbetScheme ELSE cfg.rootUri
                  IN  IF Len(root) > Len(uri) THEN {Undefined}
                      ELSE IF Len(root) = Len(uri)
                           THEN {PathToLocal(<<>>, isSorbetURI), Undefined}
                      ELSE LET start == IF uri[Len(root) + 1] = "/"
                                        THEN Len(root) + 1 ELSE Len(root)
                           IN  {PathToLocal(Substr(uri, start), isSorbetURI)}

(* File table (core::GlobalState) and locations *)

\* FileRef: 0 is the reference that does not exist, i >= 1 is gs[i]
exists(file) == file # 0

\* gs.findFileByPath(path): the file of that path, or the nonexistent reference
findFileByPath(gs, path) ==
    IF \E i \in 1..Len(gs) : gs[i].path = path
    THEN CHOOSE i \in 1..Len(gs) :
            /\ gs[i].path = path
            /\ \A j \in 1..(i - 1) : gs[j].path # path
    ELSE 0

uri2FileRef(gs, uri) ==
    IF assertHasClientConfig.kind = "fault" THEN {assertHasClientConfig}
    ELSE IF ~StartsWith(uri, clientConfig[1].rootUri) /\ ~StartsWith(uri, sorbetScheme)
         THEN {Ret(0)}
    ELSE { IF o.kind = "ret" THEN Ret(findFileByPath(gs, o.val)) ELSE o :
             o \in remoteName2Local(uri) }

\* faulty variant of fileRef2Uri: a payload file always gets the sorbet: scheme
fileRef2Uri_alwaysSorbet(gs, file, ignored) ==
    IF assertHasClientConfig.kind = "fault" THEN assertHasClientConfig
    ELSE IF ~exists(file) THEN Ret(<<"?", "?", "?">>)
    ELSE IF gs[file].payload THEN Ret(sorbetScheme \o gs[file].path)
    ELSE localName2Remote(gs[file].path, ignored)

fileRef2Uri(gs, file, ignored) ==
    IF assertHasClientConfig.kind = "fault" THEN assertHasClientConfig
    ELSE IF ~exists(file) THEN Ret(<<"?", "?", "?">>)
    ELSE IF gs[file].payload
         THEN IF clientConfig[1].enableSorbetURIs
              THEN Ret(sorbetScheme \o gs[file].path)
              ELSE Ret(gs[file].path)
    ELSE localName2Remote(gs[file].path, ignored)

\* loc2Location(gs, loc): loc.range is what Range::fromLoc(gs, loc) answers
\* (<<>> for nullptr), loc.line what loc.position(gs).first.line answers
loc2Location(gs, loc, ignored) ==
    IF assertHasClientConfig.kind = "fault" THEN assertHasClientConfig
    ELSE IF loc.range = <<>> THEN Ret(<<>>)
    ELSE LET uri == fileRef2Uri(gs, loc.file, ignored)
         IN  IF uri.kind # "ret" THEN uri
             ELSE IF exists(loc.file) /\ gs[loc.file].payload
                     /\ ~clientConfig[1].enableSorbetURIs
                  THEN Ret(<< [uri |-> uri.val \o <<"#", "L">> \o FormatDecimal(loc.line),
                               range |-> loc.range[1]] >>)
             ELSE Ret(<< [uri |-> uri.val, range |-> loc.range[1]] >>)

\* lspPos2Loc(fref, pos, gs): `offset` is what core::Loc::pos2Offset answers
\* for the 1-based reqPos
lspPos2Loc(fref, pos, offset) ==
    LET reqPos == [line |-> pos.line + 1, column |-> pos.character + 1]
    IN  Ret([file |-> fref, beginPos |-> offset[reqPos], endPos |-> offset[reqPos]])

----------------------------------------------------------------------------
(* Inputs of the calls *)

RootPaths == { dirs[1] : dirs \in { d \in RawInputDirNames : Len(d) = 1 } }

\* the prefixes a client URI may carry: none, a root URI, the synthetic scheme
UriPrefixes == RootUriBases \cup {sorbetScheme}

Uris == { pre \o t : pre \in UriPrefixes, t \in Tails }
ShortUris == { pre \o t : pre \in UriPrefixes, t \in TailsOf(1) }

\* local names: under some root path, or anywhere else
Paths == { rp \o t : rp \in RootPaths, t \in Tails }
ShortPaths == { rp \o t : rp \in RootPaths, t \in {<<>>, <<"/", "x">>, <<"x">>} }

\* a payload file's name is a link to its source, not a name under rootPath
PayloadPath == httpsScheme \o <<":", "/", "x">>

File(path, payload) == [path |-> path, payload |-> payload]

\* file tables: one payload file and one file read from disk
GlobalStates == { << File(PayloadPath, TRUE), File(p, FALSE) >> : p \in ShortPaths }

FileRefs(gs) == 0..Len(gs)

Lines == 1..MaxLine

\* a Loc with what the collaborators answer for it: Range::fromLoc gives no
\* range for a Loc that does not exist, and a Loc of no file does not exist
Locs(gs) ==
    UNION { {[file |-> f, line |-> n, range |-> <<>>]}
            \cup (IF exists(f)
                  THEN {[file |-> f, line |-> n, range |-> << [startLine |-> n - 1] >>]}
                  ELSE {}) :
            f \in FileRefs(gs), n \in Lines }

Positions == [line : 0..MaxPos, character : 0..MaxPos]
Details == [line : 1..(MaxPos + 1), column : 1..(MaxPos + 1)]

\* core::Loc::pos2Offset for a file whose lines are all w bytes long
OffsetTables == { [d \in Details |-> (d.line - 1) * w + (d.column - 1)] : w \in {2, 3} }

----------------------------------------------------------------------------
(* The calls, as steps of the calling thread *)

Call_LSPClientConfiguration ==
    /\ Idle
    /\ \E params \in InitializeParams :
          last' = Call("LSPClientConfiguration", params, Ret(LSPClientConfiguration(params)))
    /\ Const

\* faulty variant of the getClientConfig call: installs the default
\* configuration when none is installed
Call_getClientConfig_installsDefault ==
    /\ Idle
    /\ clientConfig' = IF clientConfig = <<>> THEN <<DefaultClientConfiguration>> ELSE clientConfig
    /\ last' = Call("getClientConfig", <<>>, Ret(clientConfig'[1]))
    /\ UNCHANGED <<debugMode, rootPath, initialized, marked, readerVars>>

Call_getClientConfig ==
    /\ Idle
    /\ last' = Call("getClientConfig", <<>>, getClientConfig)
    /\ Const

Call_isUriInWorkspace ==
    /\ Idle
    /\ \E uri \in ShortUris :
          last' = Call("isUriInWorkspace", uri, isUriInWorkspace(uri))
    /\ Const

Call_isFileIgnored ==
    /\ Idle
    /\ \E filePath \in ShortPaths, ignored \in BOOLEAN :
          last' = Call("isFileIgnored", filePath, Ret(ignored))
    /\ Const

Call_lspPos2Loc ==
    /\ Idle
    /\ \E gs \in GlobalStates, pos \in Positions, offset \in OffsetTables :
       \E fref \in FileRefs(gs) \ {0} :
          last' = Call("lspPos2Loc", [file |-> fref, pos |-> pos], lspPos2Loc(fref, pos, offset))
    /\ Const

Call_localName2Remote ==
    /\ Idle
    /\ \E filePath \in Paths, ignored \in BOOLEAN :
          last' = Call("localName2Remote", [path |-> filePath, ignored |-> ignored],
                       localName2Remote(filePath, ignored))
    /\ Const

\* the URI comes from the client, or is the one localName2Remote just returned
Call_remoteName2Local ==
    /\ \/ /\ Idle
          /\ \E uri \in Uris : \E out \in remoteName2Local(uri) :
                last' = Call("remoteName2Local", [uri |-> uri, via |-> <<>>], out)
       \/ /\ last.op = "localName2Remote"
          /\ last.out.kind = "ret"
          /\ \E out \in remoteName2Local(last.out.val) :
                last' = Call("remoteName2Local", [uri |-> last.out.val, via |-> <<last.arg>>], out)
    /\ Const

Call_uri2FileRef ==
    /\ Idle
    /\ \E gs \in GlobalStates, uri \in ShortUris :
       \E out \in uri2FileRef(gs, uri) :
          last' = Call("uri2FileRef", [gs |-> gs, uri |-> uri], out)
    /\ Const

Call_fileRef2Uri ==
    /\ Idle
    /\ \E gs \in GlobalStates, ignored \in BOOLEAN :
       \E file \in FileRefs(gs) :
          last' = Call("fileRef2Uri", [gs |-> gs, file |-> file, ignored |-> ignored],
                       fileRef2Uri(gs, file, ignored))
    /\ Const

Call_loc2Location ==
    /\ Idle
    /\ \E gs \in GlobalStates, ignored \in BOOLEAN :
       \E loc \in Locs(gs) :
          last' = Call("loc2Location", [gs |-> gs, loc |-> loc, ignored |-> ignored],
                       loc2Location(gs, loc, ignored))
    /\ Const

Next ==
    \/ \E cfg \in ClientConfigurations : setClientConfig(cfg)
    \/ markInitialized
    \/ isInitialized
    \/ Return
    \/ Call_LSPClientConfiguration
    \/ Call_getClientConfig
    \/ Call_isUriInWorkspace
    \/ Call_isFileIgnored
    \/ Call_lspPos2Loc
    \/ Call_localName2Remote
    \/ Call_remoteName2Local
    \/ Call_uri2FileRef
    \/ Call_fileRef2Uri
    \/ Call_loc2Location

Spec == Init /\ [][Next]_vars

\* the session with reader threads polling the initialized flag while the
\* calling thread negotiates and marks the session initialized
NextReady ==
    \/ \E cfg \in ClientConfigurations : setClientConfig(cfg)
    \/ markInitialized
    \/ isInitialized
    \/ Return
    \/ Call_getClientConfig
    \/ \E r \in Readers : isInitialized_load(r)
    \/ \E r \in Readers : isInitialized_return(r)

SpecReady == Init /\ [][NextReady]_vars

----------------------------------------------------------------------------
(* Properties *)

Installed == clientConfig # <<>>

\* the calls that consume the client configuration
Consumers ==
    { "localName2Remote", "remoteName2Local", "uri2FileRef", "fileRef2Uri",
      "loc2Location", "isUriInWorkspace", "getClientConfig" }

\* the translation and query calls
Queries ==
    Consumers \cup { "lspPos2Loc", "isFileIgnored", "isInitialized" }

\* P names something inside the directory rootPath: rootPath, a '/', and a
\* non-empty relative name; with the empty rootPath (the current directory)
\* P is the relative name itself
StrictlyUnder(P) ==
    IF rootPath = <<>>
    THEN P # <<>> /\ P[1] # "/"
    ELSE /\ StartsWith(P, rootPath \o <<"/">>)
         /\ Len(P) > Len(rootPath) + 1
         /\ P[Len(rootPath) + 2] # "/"

\* C1: round trip. Whenever remoteToLocal is applied to what localToRemote
\* returned for a path P strictly under rootPath, with a client that has no
\* sorbet: support and P not matched by the missing-from-client patterns,
\* it returns P.
C1_RoundTrip ==
    ( /\ last.op = "remoteName2Local"
      /\ last.arg.via # <<>>
      /\ Installed
      /\ ~clientConfig[1].enableSorbetURIs
      /\ ~last.arg.via[1].ignored
      /\ StartsWith(last.arg.via[1].path, rootPath)
      /\ StrictlyUnder(last.arg.via[1].path) )
    => ( last.out.kind = "ret" /\ last.out.val = last.arg.via[1].path )

\* C2: with a client configuration installed (sorbet: support on or off),
\* remoteToLocal of a URI that begins with neither "sorbet:" nor rootUri
\* logs an error and returns the URI unchanged.
C2_UnrecognizedUriIsIdentity ==
    ( /\ last.op = "remoteName2Local"
      /\ Installed
      /\ ~StartsWith(last.arg.uri, sorbetScheme)
      /\ ~StartsWith(last.arg.uri, clientConfig[1].rootUri) )
    => last.out = RetLogged(last.arg.uri)


\* C3: a setClientConfig call made while no client configuration is installed
\* installs its argument and returns; one made while a configuration is
\* installed faults and leaves the slot, rootPath and the flag as they were;
\* an installed configuration never changes and never becomes absent.
C3_SetClientConfigOnce ==
    [][ /\ last'.op = "setClientConfig" =>
            IF Installed
            THEN /\ last'.out = Fault(SetTwice)
                 /\ UNCHANGED <<clientConfig, rootPath, initialized>>
            ELSE /\ last'.out = Ret(<<>>)
                 /\ clientConfig' = <<last'.arg>>
        /\ Installed => clientConfig' = clientConfig ]_vars

\* a second setClientConfig, with another configuration, has faulted and the
\* first configuration is still the installed one
C3_Witness ==
    /\ last.op = "setClientConfig"
    /\ last.out = Fault(SetTwice)
    /\ Installed
    /\ clientConfig[1] # last.arg

\* C4 as claimed: before any setClientConfig has succeeded every consumer of
\* the client configuration raises the "clientConfig is not initialized."
\* fault, for every input; once a configuration is installed none raises it.
C4_FaultIsNotInitialized ==
    last.op \in Consumers =>
        IF Installed
        THEN ~(last.out.kind = "fault" /\ last.out.err = NoClientConfig)
        ELSE last.out = Fault(NoClientConfig)

\* C4 as amended: before any setClientConfig has succeeded every consumer of
\* the client configuration faults and returns no value, for every input; the
\* fault is "clientConfig is not initialized." except for localName2Remote of a
\* path that does not begin with rootPath in a build that checks ENFORCE,
\* where the precondition fault is raised first; once a configuration is
\* installed none raises the not-initialized fault.
C4_FaultsBeforeNegotiation ==
    last.op \in Consumers =>
        IF Installed
        THEN ~(last.out.kind = "fault" /\ last.out.err = NoClientConfig)
        ELSE IF /\ last.op = "localName2Remote"
                /\ debugMode
                /\ ~StartsWith(last.arg.path, rootPath)
             THEN last.out = Fault(EnforceFailed)
             ELSE last.out = Fault(NoClientConfig)

\* a translator has been called before the handshake and has faulted
C4_Witness ==
    /\ ~Installed
    /\ last.op = "remoteName2Local"
    /\ last.out = Fault(NoClientConfig)

\* C5: the flag is false until markInitialized has executed; a call of
\* isInitialized returns true only after markInitialized has executed; a call
\* of isInitialized that begins after some call has returned true returns
\* true, whichever thread makes it; only markInitialized changes the flag,
\* and only from false to true.
C5_ReadyMonotonic ==
    /\ [](~marked => ~initialized)
    /\ [](\A r \in Readers : (pc[r] = "loaded" /\ reg[r]) => marked)
    /\ [](\A r \in Readers : (pc[r] = "loaded" /\ invokedAfterTrue[r]) => reg[r])
    /\ []((last.op = "isInitialized" /\ last.out.val) => marked)
    /\ [][ /\ (someReturnedTrue /\ last'.op = "isInitialized") => last'.out.val
           /\ initialized => initialized'
           /\ initialized' # initialized => last'.op = "markInitialized" ]_vars

\* one reader has returned true and another, which began its call after
\* that, holds the value it is about to return
C5_Witness ==
    \E r \in Readers : pc[r] = "loaded" /\ invokedAfterTrue[r] /\ reg[r]

\* the remainder of a sorbet: URI: what follows the scheme and one optional '/'
SorbetRemainder(uri) ==
    LET rest == Substr(uri, Len(sorbetScheme))
    IN  IF rest # <<>> /\ rest[1] = "/" THEN Tail(rest) ELSE rest

\* C6: with a client configuration installed, remoteToLocal of a URI that
\* begins with "sorbet:" and has at least one character after the scheme (the
\* URI "sorbet:" itself makes the code read past the end of the view) returns the remainder with every "%3A" replaced by ":"
\* and no rootPath prefix when the remainder begins with "https:" or
\* "https%3A"; otherwise it returns rootPath + "/" + remainder when rootPath
\* is non-empty and the remainder when rootPath is empty.
C6_SorbetUriToLocal ==
    ( /\ last.op = "remoteName2Local"
      /\ Installed
      /\ StartsWith(last.arg.uri, sorbetScheme)
      /\ Len(last.arg.uri) > Len(sorbetScheme) )
    => LET remainder == SorbetRemainder(last.arg.uri)
           isLink == \/ StartsWith(remainder, httpsScheme \o <<":">>)
                     \/ StartsWith(remainder, httpsScheme \o <<"%", "3", "A">>)
       IN  /\ last.out.kind = "ret"
           /\ last.out.val =
                IF isLink THEN StrReplaceAll(remainder, <<"%", "3", "A">>, <<":">>)
                ELSE IF rootPath # <<>> THEN rootPath \o <<"/">> \o remainder
                ELSE remainder

\* C7: with a client configuration installed, localToRemote of a path that
\* begins with rootPath (path = rootPath included) returns, with rel the path
\* less the rootPath prefix and at most one leading '/': rel when rootUri is
\* empty; else "sorbet:" + rel when the client supports sorbet: and the path
\* matches the missing-from-client patterns; else rootUri + "/" + rel.
C7_LocalToRemote ==
    ( /\ last.op = "localName2Remote"
      /\ Installed
      /\ StartsWith(last.arg.path, rootPath) )
    => LET rest == Substr(last.arg.path, Len(rootPath))
           rel == IF rest # <<>> /\ rest[1] = "/" THEN Tail(rest) ELSE rest
           cfg == clientConfig[1]
       IN  last.out =
             Ret(IF cfg.rootUri = <<>> THEN rel
                 ELSE IF cfg.enableSorbetURIs /\ last.arg.ignored THEN sorbetScheme \o rel
                 ELSE cfg.rootUri \o <<"/">> \o rel)


\* C8: the negotiator strips exactly one trailing '/' from a string rootUri
\* and changes nothing else: for s not ending in '/', the payloads with
\* rootUri s and s + "/" (other fields equal) give the same configuration,
\* with rootUri = s, and s + "//" gives rootUri = s + "/"; for s ending in '/'
\* the stored rootUri is s less its last character; a null rootUri gives the
\* empty rootUri.
C8_TrailingSlash ==
    last.op = "LSPClientConfiguration" =>
        LET params == last.arg
            cfg == last.out.val
            s == params.rootUri.str
            With(u) == [params EXCEPT !.rootUri = StringRootUri(u)]
        IN  IF ~params.rootUri.isString THEN cfg.rootUri = <<>>
            ELSE IF EndsWith(s, <<"/">>) THEN cfg.rootUri \o <<"/">> = s
            ELSE /\ cfg.rootUri = s
                 /\ LSPClientConfiguration(With(s \o <<"/">>)) = cfg
                 /\ LSPClientConfiguration(With(s \o <<"/", "/">>)).rootUri = s \o <<"/">>

\* a handshake whose rootUri ends in "//" has been negotiated, with the
\* sorbet: option set, and one '/' is left
C8_Witness ==
    /\ last.op = "LSPClientConfiguration"
    /\ last.arg.rootUri = StringRootUri(<<"f", ":", "w", "/", "/">>)
    /\ last.out.val.rootUri = <<"f", ":", "w", "/">>
    /\ last.out.val.enableSorbetURIs

\* C9: with a client configuration installed, fileRefToUri gives "???" for the
\* nonexistent reference; for a payload file "sorbet:" + path when the client
\* supports sorbet: and the bare path otherwise, whether or not the path
\* begins with rootPath; for any other file what localToRemote gives for its
\* path.  A Location that locToLocation returns carries that URI, followed by
\* "#L" and the 1-based start line in decimal exactly when the file exists,
\* is a payload file and the client lacks sorbet: support.
C9_FileRefToUri ==
    /\ (last.op = "fileRef2Uri" /\ Installed) =>
          LET gs == last.arg.gs
              file == last.arg.file
          IN  IF file = 0 THEN last.out = Ret(<<"?", "?", "?">>)
              ELSE IF gs[file].payload
                   THEN last.out = Ret(IF clientConfig[1].enableSorbetURIs
                                       THEN sorbetScheme \o gs[file].path
                                       ELSE gs[file].path)
              ELSE last.out = localName2Remote(gs[file].path, last.arg.ignored)
    /\ (last.op = "loc2Location" /\ Installed /\ last.out.kind = "ret" /\ last.out.val # <<>>) =>
          LET gs == last.arg.gs
              loc == last.arg.loc
              uri == fileRef2Uri(gs, loc.file, last.arg.ignored).val
              location == last.out.val[1]
              shim == /\ loc.file # 0
                      /\ gs[loc.file].payload
                      /\ ~clientConfig[1].enableSorbetURIs
          IN  /\ location.uri =
                   IF shim
                   THEN uri \o <<"#", "L">> \o FormatDecimal(location.range.startLine + 1)
                   ELSE uri
              /\ (shim /\ loc.line = 10) =>
                   location.uri = PayloadPath \o <<"#", "L", "1", "0">>

\* a payload file's location has been rendered for a client without sorbet:
\* support, at a two-digit line
C9_Witness ==
    /\ last.op = "loc2Location"
    /\ Installed
    /\ ~clientConfig[1].enableSorbetURIs
    /\ last.out.kind = "ret"
    /\ last.out.val # <<>>
    /\ last.out.val[1].uri = PayloadPath \o <<"#", "L", "1", "1">>
    /\ ~StartsWith(PayloadPath, rootPath)

\* C10: a translation or query call leaves rootPath, the client-configuration
\* slot and the flag as they were, whether it returns or faults;
\* markInitialized changes neither rootPath nor the slot; setClientConfig
\* changes neither rootPath nor the flag; rootPath never changes.
C10_Frame ==
    [][ /\ last'.op \in Queries => UNCHANGED <<rootPath, clientConfig, initialized>>
        /\ last'.op = "markInitialized" => UNCHANGED <<rootPath, clientConfig>>
        /\ last'.op = "setClientConfig" => UNCHANGED <<rootPath, initialized>>
        /\ rootPath' = rootPath ]_vars

\* a consumer has faulted before the handshake, after the flag was set
C10_Witness ==
    /\ last.op = "getClientConfig"
    /\ last.out.kind = "fault"
    /\ initialized
    /\ ~Installed

====
